---------------------------- MODULE Spec2Model ----------------------------
(***************************************************************************)
(* Model of the bookmark-to-podcast pipeline of podbackend (src/server.js):*)
(* axiosWithRetry, generateSummary, generateConversationalScript,          *)
(* generateSpeech, generatePodcastAudio, generateSummaryAndPodcast and the *)
(* handler of POST /api/summary.                                           *)
(*                                                                         *)
(* Spec is one call of generateSummaryAndPodcast, SpecConc two calls in    *)
(* the process at once, SpecSeq two calls one after the other with stubbed *)
(* collaborators, SpecHandler one request from its arrival to its response,*)
(* SpecLive is Spec with every step that stays possible eventually taken.  *)
(*                                                                         *)
(* Strings are sequences of tokens.  A token is a piece of text that the   *)
(* code never looks inside: "http", "://", ":", " ", "\n", ".", a word.    *)
(* The string operations of the code (trim, split, join, startsWith,       *)
(* replace) are computed on these sequences.                               *)
(*                                                                         *)
(* One action is one resumption of an async function: the code that runs   *)
(* between two awaits.  External collaborators (the page fetch, the two    *)
(* Gemini calls, the ElevenLabs call) answer nondeterministically.         *)
(***************************************************************************)
EXTENDS Integers, Sequences, FiniteSets, TLC

(***************************************************************************)
(* Bounds of the model.                                                    *)
(***************************************************************************)
\* Longest bookmark list a request carries.
MaxBookmarks == 2

(***************************************************************************)
(* String helpers (the JavaScript String methods), on token sequences.     *)
(***************************************************************************)
\* \s of the regular expressions, and what trim() strips.
IsSpace(t) == t \in {" ", "\n"}

RECURSIVE TrimLeft(_)
TrimLeft(s) ==
  IF s # <<>> /\ IsSpace(Head(s)) THEN TrimLeft(Tail(s)) ELSE s

RECURSIVE TrimRight(_)
TrimRight(s) ==
  IF s # <<>> /\ IsSpace(s[Len(s)]) THEN TrimRight(SubSeq(s, 1, Len(s) - 1)) ELSE s

\* String trim()
Trim(s) == TrimRight(TrimLeft(s))

\* String startsWith(p)
StartsWith(s, p) == Len(s) >= Len(p) /\ SubSeq(s, 1, Len(p)) = p

\* String split(sep) for a one-token separator: always at least one
\* piece; a string without the separator gives the one piece that is the string.
RECURSIVE SplitAcc(_, _, _)
SplitAcc(s, sep, cur) ==
  IF s = <<>> THEN <<cur>>
  ELSE IF Head(s) = sep THEN <<cur>> \o SplitAcc(Tail(s), sep, <<>>)
  ELSE SplitAcc(Tail(s), sep, Append(cur, Head(s)))

Split(s, sep) == SplitAcc(s, sep, <<>>)

\* Array join(sep), sep a token sequence.
RECURSIVE Join(_, _)
Join(parts, sep) ==
  IF parts = <<>> THEN <<>>
  ELSE IF Len(parts) = 1 THEN parts[1]
  ELSE parts[1] \o sep \o Join(Tail(parts), sep)

(***************************************************************************)
(* JavaScript values of a bookmark's fields: undefined, a number, a string.*)
(***************************************************************************)
Undefined == [t |-> "undefined", s |-> <<>>]
Number42 == [t |-> "number", s |-> <<>>]
Str(s) == [t |-> "string", s |-> s]

\* JavaScript truthiness: undefined and '' are falsy, the number 42 is truthy.
\* An array is truthy, the empty one too.
Truthy(v) == v.t \in {"number", "array"} \/ (v.t = "string" /\ v.s # <<>>)

\* The bookmark descriptors a request body may carry.  dateAdded is left
\* out: it is only rendered (new Date(..).toLocaleDateString()), which never
\* throws and decides nothing.
Bookmarks ==
  { [url |-> Str(<<"http", "s", "://", "a">>), title |-> Undefined],
    [url |-> Undefined, title |-> Str(<<"M">>)],
    [url |-> Number42, title |-> Undefined],
    [url |-> Str(<<"ftp", "://", "c">>), title |-> Undefined],
    [url |-> Str(<<"http", "x">>), title |-> Str(<<"X">>)] }

\* All bookmark lists of length 1..n.
BookmarkLists(n) == UNION { [1..k -> Bookmarks] : k \in 1..n }

(***************************************************************************)
(* Page text, run-length encoded: a sequence of runs [c, n], n >= 1        *)
(* characters of class c: "w" word character, "s" blank, "n" newline,      *)
(* "p" one of . , ! ? - and "x" any other character.                       *)
(***************************************************************************)
IsWsRun(r) == r.c \in {"s", "n"}

RECURSIVE RLen(_)
RLen(txt) == IF txt = <<>> THEN 0 ELSE Head(txt).n + RLen(Tail(txt))

RECURSIVE RTrimLeft(_)
RTrimLeft(txt) ==
  IF txt # <<>> /\ IsWsRun(Head(txt)) THEN RTrimLeft(Tail(txt)) ELSE txt

RECURSIVE RTrimRight(_)
RTrimRight(txt) ==
  IF txt # <<>> /\ IsWsRun(txt[Len(txt)])
  THEN RTrimRight(SubSeq(txt, 1, Len(txt) - 1)) ELSE txt

\* trim() on page text
RTrim(txt) == RTrimRight(RTrimLeft(txt))

\* replace(/\s+/g, ' '): every maximal stretch of whitespace becomes one blank.
RECURSIVE CollapseWs(_)
CollapseWs(txt) ==
  IF txt = <<>> THEN <<>>
  ELSE IF IsWsRun(Head(txt))
       THEN <<[c |-> "s", n |-> 1]>> \o CollapseWs(RTrimLeft(txt))
       ELSE <<Head(txt)>> \o CollapseWs(Tail(txt))

\* replace(/\n+/g, ' '): every stretch of newlines becomes one blank.
RECURSIVE NewlinesToBlank(_)
NewlinesToBlank(txt) ==
  IF txt = <<>> THEN <<>>
  ELSE IF Head(txt).c = "n"
       THEN <<[c |-> "s", n |-> 1]>> \o NewlinesToBlank(Tail(txt))
       ELSE <<Head(txt)>> \o NewlinesToBlank(Tail(txt))

\* replace(/[^\w\s.,!?-]/g, ' '): every other character becomes a blank, one
\* for one (the blanks are not collapsed again).
RECURSIVE NoiseToBlank(_)
NoiseToBlank(txt) ==
  IF txt = <<>> THEN <<>>
  ELSE IF Head(txt).c = "x"
       THEN <<[c |-> "s", n |-> Head(txt).n]>> \o NoiseToBlank(Tail(txt))
       ELSE <<Head(txt)>> \o NoiseToBlank(Tail(txt))

\* server.js line 410
Normalize(txt) == RTrim(NoiseToBlank(NewlinesToBlank(CollapseWs(txt))))

\* mainContent.length > 100 ends the selector loop; < 100 falls back to body.
MinRegionLen == 100
\* mainContent.length < 50 is 'Not enough content extracted'.
MinContentLen == 50
\* The selector loop (lines 391-401) over the regions that matched, in the
\* order of contentSelectors: mainContent is overwritten by each region and
\* the loop stops at the first one longer than MinRegionLen.
RECURSIVE SelectorLoop(_, _)
SelectorLoop(regions, content) ==
  IF regions = <<>> THEN content
  ELSE LET m == RTrim(Head(regions))
       IN IF RLen(m) > MinRegionLen THEN m ELSE SelectorLoop(Tail(regions), m)

\* Lines 385-410: selector loop, body fallback, normalisation.
ExtractMainContent(doc) ==
  LET m == SelectorLoop(doc.regions, <<>>)
      chosen == IF m = <<>> \/ RLen(m) < MinRegionLen THEN RTrim(doc.body) ELSE m
  IN Normalize(chosen)

\* The pages the fetch may answer with (response.data as cheerio sees it):
\* the <title> text, the text of each matching content region after the
\* non-content sub-elements are removed, and the text of <body>.
Run(c, n) == [c |-> c, n |-> n]

Pages ==
  { \* an article of 120 word characters
    [title |-> <<"P">>,
     regions |-> << <<Run("n", 1), Run("w", 120), Run("s", 2)>> >>,
     body |-> <<Run("w", 300)>>],
    \* no content region, a body of 30 characters
    [title |-> <<>>,
     regions |-> << >>,
     body |-> <<Run("s", 2), Run("w", 30), Run("n", 1)>>],
    \* a region of 111 characters of which 90 are symbols
    [title |-> <<"P">>,
     regions |-> << <<Run("w", 20), Run("s", 1), Run("x", 90)>> >>,
     body |-> <<Run("w", 300)>>],
    \* a region of exactly 100 characters, a longer body
    [title |-> <<"P">>,
     regions |-> << <<Run("w", 100)>> >>,
     body |-> <<Run("w", 55), Run("n", 3), Run("w", 200)>>],
    \* no content region, a body that normalises to exactly 50 characters
    [title |-> <<"P">>,
     regions |-> << >>,
     body |-> <<Run("n", 2), Run("w", 24), Run("x", 1), Run("s", 3),
                Run("w", 24), Run("s", 1)>>] }

\* Lines 385-410 applied to each page of Pages, computed once: the text
\* extraction leaves of a fetched page.
ExtractedPages == {[doc |-> p, text |-> ExtractMainContent(p)] : p \in Pages}

\* mainContent after line 410 for the fetched page p
MainContentOf(p) == (CHOOSE e \in ExtractedPages : e.doc = p).text

(***************************************************************************)
(* The Gemini collaborator (generateSummary, generateConversationalScript).*)
(* axios.post rejects ("reject"), or answers without candidates ("nocand"),*)
(* or answers with a first candidate whose text is `text`.                 *)
(***************************************************************************)
GeminiFailures == {"reject", "nocand"}

\* error.message of the two failures
GeminiMessage(kind) ==
  IF kind = "nocand" THEN <<"Invalid response format from Gemini API">>
  ELSE <<"Request failed">>

\* Candidate texts the summarizer may answer with (before trim()).
SummaryTexts == { <<" ", "sum1", "\n">> }

\* Candidate texts the scripter may answer with (before trim()).
ScriptTexts ==
  { \* two well-formed lines
    <<"Alex", ":", " ", "w1", "\n", "Sarah", ":", " ", "w2">>,
    \* a well-formed line, then a line without a colon
    <<"Alex", ":", " ", "w3", "\n", "w4">>,
    \* a second colon in a line, a blank line inside, an indented speaker
    \* tag, a trailing newline
    <<"Sarah", ":", " ", "w5", ":", " ", "w7", "\n", "\n", " ", "Alex", ":",
      " ", "w6", ".", " ", "Then", "\n">> }

\* Lines 205-211 and 250-254: the trimmed text of the first candidate.
CandidateText(raw) == Trim(raw)

(***************************************************************************)
(* generateSpeech (lines 261-314).                                         *)
(***************************************************************************)
\* [.!?] of the regular expressions
IsEnd(t) == t = "."
\* a token matching [A-Z][a-z]+
IsCap(t) == t \in {"Alex", "Sarah", "Then"}

\* .replace(/([.!?])\s+/g, '$1\n')
RECURSIVE Fmt1(_)
Fmt1(s) ==
  IF s = <<>> THEN <<>>
  ELSE IF IsEnd(Head(s)) /\ Len(s) >= 2 /\ IsSpace(s[2])
       THEN <<Head(s), "\n">> \o Fmt1(TrimLeft(Tail(s)))
       ELSE <<Head(s)>> \o Fmt1(Tail(s))

\* .replace(/([.!?])\n/g, '$1\n\n')
RECURSIVE Fmt2(_)
Fmt2(s) ==
  IF s = <<>> THEN <<>>
  ELSE IF IsEnd(Head(s)) /\ Len(s) >= 2 /\ s[2] = "\n"
       THEN <<Head(s), "\n", "\n">> \o Fmt2(Tail(Tail(s)))
       ELSE <<Head(s)>> \o Fmt2(Tail(s))

\* .replace(/([A-Z][a-z]+):/g, '$1,')
RECURSIVE Fmt3(_)
Fmt3(s) ==
  IF s = <<>> THEN <<>>
  ELSE IF IsCap(Head(s)) /\ Len(s) >= 2 /\ s[2] = ":"
       THEN <<Head(s), ",">> \o Fmt3(Tail(Tail(s)))
       ELSE <<Head(s)>> \o Fmt3(Tail(s))

\* .replace(/\s+/g, ' ')
RECURSIVE Fmt4(_)
Fmt4(s) ==
  IF s = <<>> THEN <<>>
  ELSE IF IsSpace(Head(s)) THEN <<" ">> \o Fmt4(TrimLeft(s))
       ELSE <<Head(s)>> \o Fmt4(Tail(s))

\* .replace(/([.!?])\s*([A-Z])/g, '$1\n\n$2')
RECURSIVE Fmt5(_)
Fmt5(s) ==
  IF s = <<>> THEN <<>>
  ELSE LET rest == TrimLeft(Tail(s))
       IN IF IsEnd(Head(s)) /\ rest # <<>> /\ IsCap(Head(rest))
          THEN <<Head(s), "\n", "\n", Head(rest)>> \o Fmt5(Tail(rest))
          ELSE <<Head(s)>> \o Fmt5(Tail(s))

\* .replace(/([^.!?])\s*([A-Z][a-z]+:)/g, '$1\n$2')
RECURSIVE Fmt6(_)
Fmt6(s) ==
  IF s = <<>> THEN <<>>
  ELSE LET rest == TrimLeft(Tail(s))
       IN IF ~IsEnd(Head(s)) /\ Len(rest) >= 2 /\ IsCap(rest[1]) /\ rest[2] = ":"
          THEN <<Head(s), "\n", rest[1], ":">> \o Fmt6(Tail(Tail(rest)))
          ELSE <<Head(s)>> \o Fmt6(Tail(s))

\* Lines 264-271
FormatText(text) == Trim(Fmt6(Fmt5(Fmt4(Fmt3(Fmt2(Fmt1(text)))))))

VoiceBella == "EXAVITQu4vr4xnSDxMaL"
VoiceRachel == "21m00Tcm4TlvDq8ikWAM"

\* Line 274
VoiceId(isAlex) == IF isAlex THEN VoiceBella ELSE VoiceRachel

\* Lines 278-295: what ElevenLabs answers when it answers, as a Buffer: the
\* bytes of the speech of `text` in the voice chosen for the speaker.
SpeechBuffer(text, isAlex) == << [voice |-> VoiceId(isAlex), text |-> FormatText(text)] >>

(***************************************************************************)
(* generatePodcastAudio (lines 316-360), the per-line computations.        *)
(***************************************************************************)
\* Line 322
ScriptLines(conversation) == Split(conversation, "\n")

\* Line 328: if (line.trim())
IsBlankLine(line) == Trim(line) = <<>>

\* Line 329
IsAlexLine(line) == StartsWith(line, <<"Alex", ":">>)

\* Line 330: line.split(':')[1] is undefined for a line without a colon, and
\* .trim() on undefined is a TypeError.
LineThrows(line) == Len(Split(line, ":")) < 2

\* Line 330, for a line with a colon
LineText(line) == Trim(Split(line, ":")[2])

\* The lines of the scripts of ScriptTexts that reach generateSpeech (lines
\* 326-331: not blank, with a colon), each with the text generateSpeech sends
\* for it (lines 264-271), computed once.
SpokenLines ==
  { l \in UNION { { ScriptLines(CandidateText(s))[k] :
                      k \in 1..Len(ScriptLines(CandidateText(s))) } :
                  s \in ScriptTexts } :
      ~IsBlankLine(l) /\ ~LineThrows(l) }

FormattedLines ==
  {[text |-> LineText(l), sent |-> FormatText(LineText(l))] : l \in SpokenLines}

\* generateSpeech(text, isAlex) as SpeechBuffer, read from FormattedLines
SpeechBufferOf(text, isAlex) ==
  << [voice |-> VoiceId(isAlex),
      text |-> (CHOOSE e \in FormattedLines : e.text = text).sent] >>

\* Line 351: Buffer.concat
RECURSIVE BufferConcat(_)
BufferConcat(bufs) ==
  IF bufs = <<>> THEN <<>> ELSE Head(bufs) \o BufferConcat(Tail(bufs))

(***************************************************************************)
(* axiosWithRetry (lines 18-28) and the URL guard (line 368).              *)
(***************************************************************************)
\* maxRetries = 3
maxRetries == 3
\* 1000 * (i + 1) milliseconds
BackoffUnit == 1000

\* IsLastAttempt with the comparison off by one: a fourth attempt is made.
IsLastAttempt_OffByOne(att) == att = maxRetries

\* Line 23: the error of the last attempt is thrown at once.
IsLastAttempt(att) == att = maxRetries - 1

\* BackoffDelay without the factor: the same wait after every attempt.
BackoffDelay_Constant(att) == BackoffUnit

\* Line 25: the wait after failed attempt number att (counted from 0).
BackoffDelay(att) == BackoffUnit * (att + 1)

\* Line 368: `if (!bookmark.url || !bookmark.url.startsWith('http')) continue;`
\* "skip" is the continue, "throw" the TypeError of calling startsWith on a
\* value that is not a string, "process" the fall through to the try block.
UrlGuard(url) ==
  IF ~Truthy(url) THEN "skip"
  ELSE IF url.t # "string" THEN "throw"
  ELSE IF ~StartsWith(url.s, <<"http">>) THEN "skip"
  ELSE "process"

\* A URL that axios can send an HTTP(S) request for: scheme http or https,
\* then "://", then a host.  For any other URL every attempt fails.
WellFormedHttpUrl(url) ==
  /\ url.t = "string"
  /\ \/ (StartsWith(url.s, <<"http", "://">>) /\ Len(url.s) > 2)
     \/ (StartsWith(url.s, <<"http", "s", "://">>) /\ Len(url.s) > 3)

(***************************************************************************)
(* State.  Every variable but `file` is a function of the request; `file`  *)
(* is path.join(__dirname, 'temp-podcast.mp3'), one file for the process.  *)
(***************************************************************************)
Reqs == {1, 2}

VARIABLES
  bookmarks,        \* the request's bookmark list
  pc,               \* where the request's generateSummaryAndPodcast stands
  i,                \* index of the bookmark of the for loop (from 1)
  attempt,          \* axiosWithRetry's i (from 0)
  title,            \* title of the bookmark being processed
  summarizedContent,\* result of generateSummary for the bookmark
  summary,          \* the fragments appended to summary, in order
  allConversations, \* the scripts pushed
  lines,            \* generatePodcastAudio's lines
  li,               \* index of the line of its for loop (from 1)
  audioBuffers,     \* its audioBuffers
  audioBuffer,      \* generateSummaryAndPodcast's audioBuffer (the result)
  file,             \* temp-podcast.mp3
  trace,            \* the external calls, waits, extractions and reads, in order
  page,             \* response.data of the bookmark being processed
  mainContent,      \* the text extracted from it (line 410)
  body,             \* req.body of the request
  env,              \* process.env: which of the settings are there
  hpc,              \* where the request's `app.post` handler stands
  responses,        \* the responses sent for the request, in order
  outbox            \* the e-mails handed to sendTransacEmail, in order

\* What only the handler of `app.post` changes.
handlerVars == <<body, env, hpc, responses, outbox>>

vars == <<bookmarks, pc, i, attempt, title, summarizedContent, summary,
          allConversations, lines, li, audioBuffers, audioBuffer, file, trace,
          page, mainContent, handlerVars>>

\* null, and a Buffer holding `data`
Null == [null |-> TRUE, data |-> <<>>]
Buf(data) == [null |-> FALSE, data |-> data]

\* the scratch file absent, and holding `data`
NoFile == [exists |-> FALSE, data |-> <<>>]
FileOf(data) == [exists |-> TRUE, data |-> data]

\* No response yet, and no req.body read.
NoPage == [title |-> <<>>, regions |-> <<>>, body |-> <<>>]
NoBody == [email |-> Undefined, bookmarks |-> Undefined]

\* EMAIL_FROM and GEMINI_API_KEY are set (BREVO_API_KEY and
\* ELEVENLABS_API_KEY always are: lines 39-47 exit without them).
FullEnv == [EMAIL_FROM |-> TRUE, GEMINI_API_KEY |-> TRUE]

\* One entry of the trace: operation, bookmark or line index, outcome, detail.
Ev(op, k, ok, arg) == [op |-> op, k |-> k, ok |-> ok, arg |-> arg]

\* The state of request r right after `app.post` calls
\* generateSummaryAndPodcast(bl) (lines 363-365), "idle" for no request.
InitRequests(lists) ==
  /\ bookmarks = lists
  /\ pc = [r \in Reqs |-> IF lists[r] = <<>> THEN "idle" ELSE "loop"]
  /\ i = [r \in Reqs |-> 1]
  /\ attempt = [r \in Reqs |-> 0]
  /\ title = [r \in Reqs |-> <<>>]
  /\ summarizedContent = [r \in Reqs |-> <<>>]
  /\ summary = [r \in Reqs |-> <<>>]
  /\ allConversations = [r \in Reqs |-> <<>>]
  /\ lines = [r \in Reqs |-> <<>>]
  /\ li = [r \in Reqs |-> 1]
  /\ audioBuffers = [r \in Reqs |-> <<>>]
  /\ audioBuffer = [r \in Reqs |-> Null]
  /\ file = NoFile
  /\ trace = [r \in Reqs |-> <<>>]
  /\ page = [r \in Reqs |-> NoPage]
  /\ mainContent = [r \in Reqs |-> <<>>]
  /\ body = [r \in Reqs |-> NoBody]
  /\ env = FullEnv
  /\ hpc = [r \in Reqs |-> "none"]
  /\ responses = [r \in Reqs |-> <<>>]
  /\ outbox = [r \in Reqs |-> <<>>]

\* One request at a time.
Init ==
  \E bl \in BookmarkLists(MaxBookmarks) :
    InitRequests([r \in Reqs |-> IF r = 1 THEN bl ELSE <<>>])

\* Two requests in the process at once, each with one bookmark.
InitConc ==
  \E l1 \in BookmarkLists(1), l2 \in BookmarkLists(1) :
    InitRequests([r \in Reqs |-> IF r = 1 THEN l1 ELSE l2])

(***************************************************************************)
(* Fragments appended to summary (lines 429-437, 440-448, 452-460).        *)
(***************************************************************************)
\* SuccessFragment with the title in the place of the summary text.
SuccessFragment_TitleAsText(bm, b, ttl, text) ==
  [bm |-> bm, kind |-> "summary", url |-> b.url, title |-> ttl, text |-> ttl]

\* `bm` is the index of the bookmark the fragment was appended for.
SuccessFragment(bm, b, ttl, text) ==
  [bm |-> bm, kind |-> "summary", url |-> b.url, title |-> ttl, text |-> text]

\* GenerationErrorFragment rendered with the markup of a summary.
GenerationErrorFragment_AsSummary(bm, b, ttl, message) ==
  [bm |-> bm, kind |-> "summary", url |-> b.url, title |-> ttl, text |-> message]

GenerationErrorFragment(bm, b, ttl, message) ==
  [bm |-> bm, kind |-> "generation-error", url |-> b.url, title |-> ttl,
   text |-> message]

\* Line 455: bookmark.title || 'Untitled'
FetchErrorFragment(bm, b, message) ==
  [bm |-> bm, kind |-> "fetch-error", url |-> b.url,
   title |-> IF Truthy(b.title) THEN b.title.s ELSE <<"Untitled">>,
   text |-> message]

\* Line 382: bookmark.title || $('title').text() || 'Untitled'
TitleOf(b, doc) ==
  IF Truthy(b.title) THEN b.title.s
  ELSE IF doc.title # <<>> THEN doc.title
  ELSE <<"Untitled">>

\* The bookmark the for loop of request r is at.
Current(r) == bookmarks[r][i[r]]

\* The next iteration of the for loop over bookmarks: the per-bookmark
\* locals are gone.
NextBookmark(r) ==
  /\ i' = [i EXCEPT ![r] = i[r] + 1]
  /\ attempt' = [attempt EXCEPT ![r] = 0]
  /\ title' = [title EXCEPT ![r] = <<>>]
  /\ summarizedContent' = [summarizedContent EXCEPT ![r] = <<>>]
  /\ page' = [page EXCEPT ![r] = NoPage]
  /\ mainContent' = [mainContent EXCEPT ![r] = <<>>]
  /\ pc' = [pc EXCEPT ![r] = "loop"]

(***************************************************************************)
(* generateSummaryAndPodcast (lines 362-478): the for loop over bookmarks. *)
(***************************************************************************)
\* Line 368, `continue`: no fragment, nothing recorded.
SkipBookmark(r) ==
  /\ pc[r] = "loop"
  /\ i[r] <= Len(bookmarks[r])
  /\ UrlGuard(Current(r).url) = "skip"
  /\ NextBookmark(r)
  /\ UNCHANGED <<handlerVars, bookmarks, summary, allConversations, lines, li, audioBuffers,
                 audioBuffer, file, trace>>

\* Line 368 stands before the try of line 369: the TypeError of startsWith
\* leaves generateSummaryAndPodcast, whose promise rejects.
UrlTypeError(r) ==
  /\ pc[r] = "loop"
  /\ i[r] <= Len(bookmarks[r])
  /\ UrlGuard(Current(r).url) = "throw"
  /\ pc' = [pc EXCEPT ![r] = "thrown"]
  /\ UNCHANGED <<handlerVars, page, mainContent, bookmarks, i, attempt, title, summarizedContent, summary,
                 allConversations, lines, li, audioBuffers, audioBuffer, file,
                 trace>>

\* Lines 369-371: into the try, axiosWithRetry is called.
StartFetch(r) ==
  /\ pc[r] = "loop"
  /\ i[r] <= Len(bookmarks[r])
  /\ UrlGuard(Current(r).url) = "process"
  /\ pc' = [pc EXCEPT ![r] = "fetch"]
  /\ attempt' = [attempt EXCEPT ![r] = 0]
  /\ UNCHANGED <<handlerVars, page, mainContent, bookmarks, i, title, summarizedContent, summary,
                 allConversations, lines, li, audioBuffers, audioBuffer, file,
                 trace>>

\* Lines 21-25: an attempt fails and is not the last: wait, then try again.
FetchRetry(r) ==
  /\ pc[r] = "fetch"
  /\ ~IsLastAttempt(attempt[r])
  /\ trace' = [trace EXCEPT ![r] =
       @ \o <<Ev("fetch", i[r], FALSE, attempt[r]),
              Ev("wait", i[r], TRUE, BackoffDelay(attempt[r]))>>]
  /\ attempt' = [attempt EXCEPT ![r] = attempt[r] + 1]
  /\ UNCHANGED <<handlerVars, page, mainContent, bookmarks, pc, i, title, summarizedContent, summary,
                 allConversations, lines, li, audioBuffers, audioBuffer, file>>

\* Lines 21-23 and 450-461: the last attempt fails, the error is thrown and
\* caught by the bookmark's catch, which appends the fetch-error fragment.
FetchGiveUp(r) ==
  /\ pc[r] = "fetch"
  /\ IsLastAttempt(attempt[r])
  /\ trace' = [trace EXCEPT ![r] = Append(@, Ev("fetch", i[r], FALSE, attempt[r]))]
  /\ summary' = [summary EXCEPT ![r] =
       Append(@, FetchErrorFragment(i[r], Current(r), <<"Request failed">>))]
  /\ NextBookmark(r)
  /\ UNCHANGED <<handlerVars, bookmarks, allConversations, lines, li, audioBuffers,
                 audioBuffer, file>>

\* Lines 21 and 371: an attempt succeeds: response.data is the page.
FetchSucceed(r) ==
  /\ pc[r] = "fetch"
  /\ WellFormedHttpUrl(Current(r).url)
  /\ \E doc \in Pages : page' = [page EXCEPT ![r] = doc]
  /\ trace' = [trace EXCEPT ![r] = Append(@, Ev("fetch", i[r], TRUE, attempt[r]))]
  /\ pc' = [pc EXCEPT ![r] = "fetched"]
  /\ UNCHANGED <<handlerVars, mainContent, bookmarks, i, attempt, title,
                 summarizedContent, summary, allConversations, lines, li,
                 audioBuffers, audioBuffer, file>>

\* TooShort with the bound counted as too short.
TooShort_AtMost(text) == text = <<>> \/ RLen(text) <= MinContentLen

\* Line 413: !mainContent || mainContent.length < 50
TooShort(text) == text = <<>> \/ RLen(text) < MinContentLen

\* Lines 381-415 and 450-461: the title is taken, the content extracted and
\* normalised; too little of it is an Error caught like a fetch error,
\* enough of it goes on to generateSummary.
ExtractContent(r) ==
  /\ pc[r] = "fetched"
  /\ LET text == MainContentOf(page[r])
     IN \/ /\ TooShort(text)
           /\ trace' = [trace EXCEPT ![r] = Append(@, Ev("extract", i[r], FALSE, 0))]
           /\ summary' = [summary EXCEPT ![r] =
                Append(@, FetchErrorFragment(i[r], Current(r),
                                             <<"Not enough content extracted">>))]
           /\ NextBookmark(r)
        \/ /\ ~TooShort(text)
           /\ trace' = [trace EXCEPT ![r] = Append(@, Ev("extract", i[r], TRUE, 0))]
           /\ title' = [title EXCEPT ![r] = TitleOf(Current(r), page[r])]
           /\ mainContent' = [mainContent EXCEPT ![r] = text]
           /\ pc' = [pc EXCEPT ![r] = "summarize"]
           /\ UNCHANGED <<i, attempt, summarizedContent, summary, page>>
  /\ UNCHANGED <<handlerVars, bookmarks, allConversations, lines, li,
                 audioBuffers, audioBuffer, file>>

\* The catch of lines 438-449: the generation-error fragment.
GenerationFailed(r, op, kind) ==
  /\ trace' = [trace EXCEPT ![r] = Append(@, Ev(op, i[r], FALSE, kind))]
  /\ summary' = [summary EXCEPT ![r] =
       Append(@, GenerationErrorFragment(i[r], Current(r), title[r],
                                         GeminiMessage(kind)))]
  /\ NextBookmark(r)
  /\ UNCHANGED <<handlerVars, bookmarks, allConversations, lines, li, audioBuffers,
                 audioBuffer, file>>

\* Line 419: generateSummary answers.
SummarizeOk(r) ==
  /\ pc[r] = "summarize"
  /\ \E raw \in SummaryTexts :
       /\ summarizedContent' = [summarizedContent EXCEPT ![r] = CandidateText(raw)]
       /\ trace' = [trace EXCEPT ![r] =
            Append(@, Ev("summarize", i[r], TRUE, CandidateText(raw)))]
  /\ pc' = [pc EXCEPT ![r] = "script"]
  /\ UNCHANGED <<handlerVars, page, mainContent, bookmarks, i, attempt, title, summary, allConversations, lines,
                 li, audioBuffers, audioBuffer, file>>

\* Line 419: generateSummary throws.
SummarizeFail(r) ==
  /\ pc[r] = "summarize"
  /\ \E kind \in GeminiFailures : GenerationFailed(r, "summarize", kind)

\* Lines 424-437: generateConversationalScript answers; the script is pushed
\* and the success fragment appended.
ScriptOk(r) ==
  /\ pc[r] = "script"
  /\ \E raw \in ScriptTexts :
       /\ allConversations' = [allConversations EXCEPT ![r] =
                                 Append(@, CandidateText(raw))]
       /\ trace' = [trace EXCEPT ![r] =
            Append(@, Ev("script", i[r], TRUE, CandidateText(raw)))]
  /\ summary' = [summary EXCEPT ![r] =
       Append(@, SuccessFragment(i[r], Current(r), title[r], summarizedContent[r]))]
  /\ NextBookmark(r)
  /\ UNCHANGED <<handlerVars, bookmarks, lines, li, audioBuffers, audioBuffer, file>>

\* Line 424: generateConversationalScript throws.
ScriptFail(r) ==
  /\ pc[r] = "script"
  /\ \E kind \in GeminiFailures : GenerationFailed(r, "script", kind)

(***************************************************************************)
(* After the loop (lines 464-477) and generatePodcastAudio (316-360).      *)
(***************************************************************************)
\* Returns { summary, audioBuffer, .. } with the audioBuffer given.
Return(r, buf) ==
  /\ audioBuffer' = [audioBuffer EXCEPT ![r] = buf]
  /\ pc' = [pc EXCEPT ![r] = "done"]

\* Line 466 false: no script was pushed; line 477.
ReturnWithoutScript(r) ==
  /\ pc[r] = "loop"
  /\ i[r] > Len(bookmarks[r])
  /\ allConversations[r] = <<>>
  /\ Return(r, Null)
  /\ UNCHANGED <<handlerVars, page, mainContent, bookmarks, i, attempt, title, summarizedContent, summary,
                 allConversations, lines, li, audioBuffers, file, trace>>

\* StartAudio as soon as one script is there, the loop not yet at its end.
StartAudio_BeforeLoopEnds(r) ==
  /\ pc[r] = "loop"
  /\ allConversations[r] # <<>>
  /\ lines' = [lines EXCEPT ![r] =
       ScriptLines(Join(allConversations[r], <<"\n", "\n">>))]
  /\ li' = [li EXCEPT ![r] = 1]
  /\ audioBuffers' = [audioBuffers EXCEPT ![r] = <<>>]
  /\ pc' = [pc EXCEPT ![r] = "synth"]
  /\ UNCHANGED <<handlerVars, page, mainContent, bookmarks, i, attempt, title,
                 summarizedContent, summary, allConversations, audioBuffer,
                 file, trace>>

\* Lines 466-469 and 322-325: the scripts are joined and split into lines.
StartAudio(r) ==
  /\ pc[r] = "loop"
  /\ i[r] > Len(bookmarks[r])
  /\ allConversations[r] # <<>>
  /\ lines' = [lines EXCEPT ![r] =
       ScriptLines(Join(allConversations[r], <<"\n", "\n">>))]
  /\ li' = [li EXCEPT ![r] = 1]
  /\ audioBuffers' = [audioBuffers EXCEPT ![r] = <<>>]
  /\ pc' = [pc EXCEPT ![r] = "synth"]
  /\ UNCHANGED <<handlerVars, page, mainContent, bookmarks, i, attempt, title, summarizedContent, summary,
                 allConversations, audioBuffer, file, trace>>

\* The line the for loop of generatePodcastAudio is at.
CurrentLine(r) == lines[r][li[r]]

\* Line 328 false: a blank line.
SkipBlankLine(r) ==
  /\ pc[r] = "synth"
  /\ li[r] <= Len(lines[r])
  /\ IsBlankLine(CurrentLine(r))
  /\ li' = [li EXCEPT ![r] = li[r] + 1]
  /\ UNCHANGED <<handlerVars, page, mainContent, bookmarks, pc, i, attempt, title, summarizedContent, summary,
                 allConversations, lines, audioBuffers, audioBuffer, file, trace>>

\* Line 330 throws: the TypeError is outside the try of line 333, the catch
\* of line 356 throws it on and the catch of line 472 swallows it: line 477
\* returns audioBuffer null.
LineTypeError(r) ==
  /\ pc[r] = "synth"
  /\ li[r] <= Len(lines[r])
  /\ ~IsBlankLine(CurrentLine(r))
  /\ LineThrows(CurrentLine(r))
  /\ Return(r, Null)
  /\ UNCHANGED <<handlerVars, page, mainContent, bookmarks, i, attempt, title, summarizedContent, summary,
                 allConversations, lines, li, audioBuffers, file, trace>>

\* Lines 334-336: generateSpeech answers and the clip is pushed.
SpeechOk(r) ==
  /\ pc[r] = "synth"
  /\ li[r] <= Len(lines[r])
  /\ ~IsBlankLine(CurrentLine(r))
  /\ ~LineThrows(CurrentLine(r))
  /\ LET isAlex == IsAlexLine(CurrentLine(r))
         text == LineText(CurrentLine(r))
     IN /\ audioBuffers' = [audioBuffers EXCEPT ![r] =
                              Append(@, SpeechBufferOf(text, isAlex))]
        /\ trace' = [trace EXCEPT ![r] =
                       Append(@, Ev("speech", li[r], TRUE, VoiceId(isAlex)))]
  /\ li' = [li EXCEPT ![r] = li[r] + 1]
  /\ UNCHANGED <<handlerVars, page, mainContent, bookmarks, pc, i, attempt, title, summarizedContent, summary,
                 allConversations, lines, audioBuffer, file>>

\* SpeechFail that stays at the line: the synthesis is tried again.
SpeechFail_TriesAgain(r) ==
  /\ pc[r] = "synth"
  /\ li[r] <= Len(lines[r])
  /\ ~IsBlankLine(CurrentLine(r))
  /\ ~LineThrows(CurrentLine(r))
  /\ trace' = [trace EXCEPT ![r] =
       Append(@, Ev("speech", li[r], FALSE, VoiceId(IsAlexLine(CurrentLine(r)))))]
  /\ UNCHANGED <<handlerVars, page, mainContent, bookmarks, pc, i, attempt,
                 title, summarizedContent, summary, allConversations, lines, li,
                 audioBuffers, audioBuffer, file>>

\* Lines 337-341: generateSpeech throws; the line is left out.
SpeechFail(r) ==
  /\ pc[r] = "synth"
  /\ li[r] <= Len(lines[r])
  /\ ~IsBlankLine(CurrentLine(r))
  /\ ~LineThrows(CurrentLine(r))
  /\ trace' = [trace EXCEPT ![r] =
       Append(@, Ev("speech", li[r], FALSE, VoiceId(IsAlexLine(CurrentLine(r)))))]
  /\ li' = [li EXCEPT ![r] = li[r] + 1]
  /\ UNCHANGED <<handlerVars, page, mainContent, bookmarks, pc, i, attempt, title, summarizedContent, summary,
                 allConversations, lines, audioBuffers, audioBuffer, file>>

\* NoAudioGenerated without the catch of line 472: the Error leaves
\* generateSummaryAndPodcast.
NoAudioGenerated_Uncaught(r) ==
  /\ pc[r] = "synth"
  /\ li[r] > Len(lines[r])
  /\ audioBuffers[r] = <<>>
  /\ pc' = [pc EXCEPT ![r] = "thrown"]
  /\ UNCHANGED <<handlerVars, page, mainContent, bookmarks, i, attempt, title, summarizedContent, summary,
                 allConversations, lines, li, audioBuffers, audioBuffer, file,
                 trace>>

\* Lines 345-347: no clip at all: the Error is thrown on by line 358 and
\* swallowed by line 472.
NoAudioGenerated(r) ==
  /\ pc[r] = "synth"
  /\ li[r] > Len(lines[r])
  /\ audioBuffers[r] = <<>>
  /\ Return(r, Null)
  /\ UNCHANGED <<handlerVars, page, mainContent, bookmarks, i, attempt, title, summarizedContent, summary,
                 allConversations, lines, li, audioBuffers, file, trace>>

\* WriteFile as fs.appendFile would do it: what the file holds stays.
WriteFile_Appends(r) ==
  /\ pc[r] = "synth"
  /\ li[r] > Len(lines[r])
  /\ audioBuffers[r] # <<>>
  /\ file' = FileOf(file.data \o BufferConcat(audioBuffers[r]))
  /\ pc' = [pc EXCEPT ![r] = "read"]
  /\ UNCHANGED <<handlerVars, page, mainContent, bookmarks, i, attempt, title,
                 summarizedContent, summary, allConversations, lines, li,
                 audioBuffers, audioBuffer, trace>>

\* Lines 351-353: the clips are concatenated and written to the scratch file.
WriteFile(r) ==
  /\ pc[r] = "synth"
  /\ li[r] > Len(lines[r])
  /\ audioBuffers[r] # <<>>
  /\ file' = FileOf(BufferConcat(audioBuffers[r]))
  /\ pc' = [pc EXCEPT ![r] = "read"]
  /\ UNCHANGED <<handlerVars, page, mainContent, bookmarks, i, attempt, title, summarizedContent, summary,
                 allConversations, lines, li, audioBuffers, audioBuffer, trace>>

\* Line 470: readFileSync of the scratch file.  It answers with the bytes
\* of the file, or throws into the catch of line 472, which only logs: when
\* the file is not there (ENOENT), and when the read itself fails on the
\* file that is there (EIO, EMFILE, ENOMEM, ...).
ReadFile(r) ==
  /\ pc[r] = "read"
  /\ IF file.exists
     THEN \/ /\ audioBuffer' = [audioBuffer EXCEPT ![r] = Buf(file.data)]
             /\ pc' = [pc EXCEPT ![r] = "unlink"]
             /\ trace' = [trace EXCEPT ![r] = Append(@, Ev("read", 0, TRUE, "ok"))]
          \/ /\ Return(r, Null)
             /\ trace' = [trace EXCEPT ![r] = Append(@, Ev("read", 0, FALSE, "EIO"))]
     ELSE /\ Return(r, Null)
          /\ trace' = [trace EXCEPT ![r] = Append(@, Ev("read", 0, FALSE, "ENOENT"))]
  /\ UNCHANGED <<handlerVars, page, mainContent, bookmarks, i, attempt, title,
                 summarizedContent, summary, allConversations, lines, li,
                 audioBuffers, file>>

\* Line 471: unlink of the scratch file; when the file is not there it throws
\* (ENOENT) into the catch of line 472, audioBuffer already assigned.
Unlink(r) ==
  /\ pc[r] = "unlink"
  /\ file' = NoFile
  /\ pc' = [pc EXCEPT ![r] = "done"]
  /\ UNCHANGED <<handlerVars, page, mainContent, bookmarks, i, attempt, title, summarizedContent, summary,
                 allConversations, lines, li, audioBuffers, audioBuffer, trace>>

Next ==
  \E r \in Reqs :
    \/ SkipBookmark(r)
    \/ UrlTypeError(r)
    \/ StartFetch(r)
    \/ FetchRetry(r)
    \/ FetchGiveUp(r)
    \/ FetchSucceed(r)
    \/ ExtractContent(r)
    \/ SummarizeOk(r)
    \/ SummarizeFail(r)
    \/ ScriptOk(r)
    \/ ScriptFail(r)
    \/ ReturnWithoutScript(r)
    \/ StartAudio(r)
    \/ SkipBlankLine(r)
    \/ LineTypeError(r)
    \/ SpeechOk(r)
    \/ SpeechFail(r)
    \/ NoAudioGenerated(r)
    \/ WriteFile(r)
    \/ ReadFile(r)
    \/ Unlink(r)

\* One request in the process.
Spec == Init /\ [][Next]_vars

\* Two requests in the process at once.
SpecConc == InitConc /\ [][Next]_vars

(***************************************************************************)
(* The handler of POST /api/summary (lines 101-164).                       *)
(***************************************************************************)
\* The bookmark lists of the requests handled under SpecHandler and SpecSeq
\* have at most this many bookmarks.
MaxShortList == 1

\* An array value of a request body.
Arr(list) == [t |-> "array", s |-> list]

\* Values of req.body.email: missing, '', an address.
Emails == { Undefined, Str(<<>>), Str(<<"u@x">>) }

\* Values of req.body.bookmarks: missing, a string, [], a list of bookmarks.
BodyBookmarks ==
  { Undefined, Str(<<"b">>), Arr(<<>>) }
    \cup { Arr(bl) : bl \in BookmarkLists(MaxShortList) }

Bodies == [email : Emails, bookmarks : BodyBookmarks]

\* process.env as the handler reads it.
Envs == [EMAIL_FROM : BOOLEAN, GEMINI_API_KEY : BOOLEAN]

\* res.status(status).json({ success, .. })
Response(status, success, text) ==
  [status |-> status, success |-> success, text |-> text]

\* RequestGuard without bookmarks.length === 0.
RequestGuard_EmptyListPasses(b, e) ==
  IF ~Truthy(b.email) THEN Response(400, FALSE, "Email is required")
  ELSE IF ~Truthy(b.bookmarks) \/ b.bookmarks.t # "array"
       THEN Response(400, FALSE, "At least one bookmark is required")
  ELSE IF ~e.EMAIL_FROM
       THEN Response(500, FALSE, "Sender email is not configured")
  ELSE IF ~e.GEMINI_API_KEY
       THEN Response(500, FALSE, "Gemini API key is not configured")
  ELSE Response(0, TRUE, "call")

\* Lines 103-118: the response the handler answers with before it calls
\* generateSummaryAndPodcast, status 0 for none.  (BREVO_API_KEY is set in
\* every process that serves: lines 81-84.)
RequestGuard(b, e) ==
  IF ~Truthy(b.email) THEN Response(400, FALSE, "Email is required")
  ELSE IF ~Truthy(b.bookmarks) \/ b.bookmarks.t # "array" \/ Len(b.bookmarks.s) = 0
       THEN Response(400, FALSE, "At least one bookmark is required")
  ELSE IF ~e.EMAIL_FROM
       THEN Response(500, FALSE, "Sender email is not configured")
  ELSE IF ~e.GEMINI_API_KEY
       THEN Response(500, FALSE, "Gemini API key is not configured")
  ELSE Response(0, TRUE, "call")

\* Lines 104-118: one of the early returns.
RejectRequest(r) ==
  /\ hpc[r] = "received"
  /\ RequestGuard(body[r], env).status # 0
  /\ responses' = [responses EXCEPT ![r] = Append(@, RequestGuard(body[r], env))]
  /\ hpc' = [hpc EXCEPT ![r] = "responded"]
  /\ UNCHANGED <<bookmarks, pc, i, attempt, title, summarizedContent, summary,
                 allConversations, lines, li, audioBuffers, audioBuffer, file,
                 trace, page, mainContent, body, env, outbox>>

\* Line 127: generateSummaryAndPodcast(bookmarks) is called and awaited.
CallPipeline(r) ==
  /\ hpc[r] = "received"
  /\ RequestGuard(body[r], env).status = 0
  /\ bookmarks' = [bookmarks EXCEPT ![r] = body[r].bookmarks.s]
  /\ pc' = [pc EXCEPT ![r] = "loop"]
  /\ hpc' = [hpc EXCEPT ![r] = "pipeline"]
  /\ UNCHANGED <<i, attempt, title, summarizedContent, summary,
                 allConversations, lines, li, audioBuffers, audioBuffer, file,
                 trace, page, mainContent, body, env, responses, outbox>>

\* Lines 127 and 156-163: the promise of generateSummaryAndPodcast rejected.
PipelineThrew(r) ==
  /\ hpc[r] = "pipeline"
  /\ pc[r] = "thrown"
  /\ responses' = [responses EXCEPT ![r] = Append(@, Response(500, FALSE, "error"))]
  /\ hpc' = [hpc EXCEPT ![r] = "responded"]
  /\ UNCHANGED <<bookmarks, pc, i, attempt, title, summarizedContent, summary,
                 allConversations, lines, li, audioBuffers, audioBuffer, file,
                 trace, page, mainContent, body, env, outbox>>

\* audioBuffer.toString('base64')
Base64(data) == [enc |-> "base64", of |-> data]

\* SendSmtpEmail with the attachment whatever audioBuffer is.
SendSmtpEmail_AlwaysAttached(r) ==
  [to |-> body[r].email.s,
   htmlContent |-> summary[r],
   attachment |-> << Base64(audioBuffer[r].data) >>]

\* Lines 133-141: the e-mail; the attachment only `if (audioBuffer)`.  (The
\* summary returned is never falsy: it starts with the heading of line 363,
\* so the early return of lines 129-131 is never taken.)
SendSmtpEmail(r) ==
  [to |-> body[r].email.s,
   htmlContent |-> summary[r],
   attachment |-> IF audioBuffer[r].null THEN <<>>
                  ELSE << Base64(audioBuffer[r].data) >>]

\* Lines 145-147: sendTransacEmail resolves.
SendEmailOk(r) ==
  /\ hpc[r] = "pipeline"
  /\ pc[r] = "done"
  /\ outbox' = [outbox EXCEPT ![r] =
       Append(@, [mail |-> SendSmtpEmail(r), delivered |-> TRUE])]
  /\ responses' = [responses EXCEPT ![r] =
       Append(@, Response(200, TRUE, "Summary and podcast sent successfully"))]
  /\ hpc' = [hpc EXCEPT ![r] = "responded"]
  /\ UNCHANGED <<bookmarks, pc, i, attempt, title, summarizedContent, summary,
                 allConversations, lines, li, audioBuffers, audioBuffer, file,
                 trace, page, mainContent, body, env>>

\* SendEmailFail whose inner catch does not throw the error on: the handler
\* ends without a response.
SendEmailFail_Swallowed(r) ==
  /\ hpc[r] = "pipeline"
  /\ pc[r] = "done"
  /\ outbox' = [outbox EXCEPT ![r] =
       Append(@, [mail |-> SendSmtpEmail(r), delivered |-> FALSE])]
  /\ hpc' = [hpc EXCEPT ![r] = "responded"]
  /\ UNCHANGED <<bookmarks, pc, i, attempt, title, summarizedContent, summary,
                 allConversations, lines, li, audioBuffers, audioBuffer, file,
                 trace, page, mainContent, body, env, responses>>

\* Lines 148-163: sendTransacEmail rejects; the error is thrown on to the
\* outer catch.
SendEmailFail(r) ==
  /\ hpc[r] = "pipeline"
  /\ pc[r] = "done"
  /\ outbox' = [outbox EXCEPT ![r] =
       Append(@, [mail |-> SendSmtpEmail(r), delivered |-> FALSE])]
  /\ responses' = [responses EXCEPT ![r] = Append(@, Response(500, FALSE, "error"))]
  /\ hpc' = [hpc EXCEPT ![r] = "responded"]
  /\ UNCHANGED <<bookmarks, pc, i, attempt, title, summarizedContent, summary,
                 allConversations, lines, li, audioBuffers, audioBuffer, file,
                 trace, page, mainContent, body, env>>

\* One POST /api/summary has arrived, with its body parsed.
InitHandler ==
  \E b \in Bodies, e \in Envs :
    /\ bookmarks = [r \in Reqs |-> <<>>]
    /\ pc = [r \in Reqs |-> "idle"]
    /\ i = [r \in Reqs |-> 1]
    /\ attempt = [r \in Reqs |-> 0]
    /\ title = [r \in Reqs |-> <<>>]
    /\ summarizedContent = [r \in Reqs |-> <<>>]
    /\ summary = [r \in Reqs |-> <<>>]
    /\ allConversations = [r \in Reqs |-> <<>>]
    /\ lines = [r \in Reqs |-> <<>>]
    /\ li = [r \in Reqs |-> 1]
    /\ audioBuffers = [r \in Reqs |-> <<>>]
    /\ audioBuffer = [r \in Reqs |-> Null]
    /\ file = NoFile
    /\ trace = [r \in Reqs |-> <<>>]
    /\ page = [r \in Reqs |-> NoPage]
    /\ mainContent = [r \in Reqs |-> <<>>]
    /\ body = [r \in Reqs |-> IF r = 1 THEN b ELSE NoBody]
    /\ env = e
    /\ hpc = [r \in Reqs |-> IF r = 1 THEN "received" ELSE "none"]
    /\ responses = [r \in Reqs |-> <<>>]
    /\ outbox = [r \in Reqs |-> <<>>]

NextHandler ==
  \/ Next
  \/ \E r \in Reqs :
       \/ RejectRequest(r)
       \/ CallPipeline(r)
       \/ PipelineThrew(r)
       \/ SendEmailOk(r)
       \/ SendEmailFail(r)

\* One request from its arrival to its response.
SpecHandler == InitHandler /\ [][NextHandler]_vars

(***************************************************************************)
(* generateSummaryAndPodcast called twice on the same list, the second     *)
(* call after the first has ended, with stubbed collaborators: a stub      *)
(* answers the second run's calls as it answered the first run's.          *)
(***************************************************************************)
\* s is a prefix of t.
IsPrefix(s, t) == Len(s) <= Len(t) /\ s = SubSeq(t, 1, Len(s))

\* The entries of a trace that are answers of the stubs (the pages fetched
\* and what is extracted from them, the Summarizer, the Scripter, the
\* Synthesizer, the timer): all but the reads of the scratch file.
StubAnswers(tr) == SelectSeq(tr, LAMBDA e : e.op # "read")

\* Request 1 is the first run and request 2 the second: it starts when the
\* first has ended and gets the first run's answers from the stubs.
InTurn(r) ==
  r = 2 =>
    /\ pc[1] \in {"done", "thrown"}
    /\ IsPrefix(StubAnswers(trace'[2]), StubAnswers(trace[1]))

InitSeq ==
  \E bl \in BookmarkLists(MaxShortList) : InitRequests([r \in Reqs |-> bl])

NextSeq ==
  \E r \in Reqs :
    \/ SkipBookmark(r) /\ InTurn(r)
    \/ UrlTypeError(r) /\ InTurn(r)
    \/ StartFetch(r) /\ InTurn(r)
    \/ FetchRetry(r) /\ InTurn(r)
    \/ FetchGiveUp(r) /\ InTurn(r)
    \/ FetchSucceed(r) /\ InTurn(r)
    \/ ExtractContent(r) /\ InTurn(r)
    \/ SummarizeOk(r) /\ InTurn(r)
    \/ SummarizeFail(r) /\ InTurn(r)
    \/ ScriptOk(r) /\ InTurn(r)
    \/ ScriptFail(r) /\ InTurn(r)
    \/ ReturnWithoutScript(r) /\ InTurn(r)
    \/ StartAudio(r) /\ InTurn(r)
    \/ SkipBlankLine(r) /\ InTurn(r)
    \/ LineTypeError(r) /\ InTurn(r)
    \/ SpeechOk(r) /\ InTurn(r)
    \/ SpeechFail(r) /\ InTurn(r)
    \/ NoAudioGenerated(r) /\ InTurn(r)
    \/ WriteFile(r) /\ InTurn(r)
    \/ ReadFile(r) /\ InTurn(r)
    \/ Unlink(r) /\ InTurn(r)

\* Two runs, one after the other.
SpecSeq == InitSeq /\ [][NextSeq]_vars

(***************************************************************************)
(* Reading the state: the events and fragments of one bookmark.            *)
(***************************************************************************)
\* The trace entries of operation op for bookmark (or line) k, in order.
EventsOf(r, op, k) == SelectSeq(trace[r], LAMBDA e : e.op = op /\ e.k = k)

\* The fragments of the summary appended for bookmark k.
FragmentsOf(r, k) == SelectSeq(summary[r], LAMBDA f : f.bm = k)

\* The for loop has left bookmark k behind.
Visited(r, k) == i[r] > k

\* generateSummaryAndPodcast has returned its result.
Returned(r) == pc[r] = "done"

\* Its promise has rejected: the exception went to the caller.
Rejected(r) == pc[r] = "thrown"

\* Some call of operation op for bookmark k ended with outcome ok.
Called(r, op, k, ok) == \E n \in 1..Len(trace[r]) :
  trace[r][n].op = op /\ trace[r][n].k = k /\ trace[r][n].ok = ok

(***************************************************************************)
(* C1.  generateSummaryAndPodcast returns {summary, audio} for every       *)
(* bookmark list: whatever one bookmark contains (a missing url, a url     *)
(* that is not a string, ...), no exception leaves the orchestrator, and   *)
(* once it has returned every bookmark has been visited.                   *)
(* Refuted by a bookmark whose url is the number 42.                       *)
(***************************************************************************)
C1_NeverRejects ==
  \A r \in Reqs :
    /\ ~Rejected(r)
    /\ Returned(r) => \A k \in 1..Len(bookmarks[r]) : Visited(r, k)

(***************************************************************************)
(* C2.  The summary returned holds exactly one fragment for each bookmark  *)
(* whose url is a well-formed HTTP(S) URL and none for each bookmark whose *)
(* url is missing or is not a well-formed HTTP(S) URL.                     *)
(* Refuted by the url "httpx": it passes startsWith('http'), every fetch   *)
(* attempt fails and a fetch-error fragment is appended.                   *)
(***************************************************************************)
C2_OneFragmentPerWellFormedUrl ==
  \A r \in Reqs :
    Returned(r) =>
      \A k \in 1..Len(bookmarks[r]) :
        Len(FragmentsOf(r, k)) =
          IF WellFormedHttpUrl(bookmarks[r][k].url) THEN 1 ELSE 0

\* The scripts the scripter returned, in the order of the calls.
RECURSIVE ArgsOf(_)
ArgsOf(evs) == IF evs = <<>> THEN <<>> ELSE <<Head(evs).arg>> \o ArgsOf(Tail(evs))

ScriptsReturned(r) ==
  ArgsOf(SelectSeq(trace[r], LAMBDA e : e.op = "script" /\ e.ok))

(***************************************************************************)
(* C3.  For a bookmark whose fetch succeeds, whose normalized text has at  *)
(* least 50 characters and whose Summarizer and Scripter calls both        *)
(* succeed (a Scripter call is made only after all of that), the summary   *)
(* holds one fragment for it, a success fragment whose text is the text    *)
(* the Summarizer returned, and allConversations holds exactly the scripts *)
(* the Scripter returned, one per such bookmark, in order.                 *)
(***************************************************************************)
C3_SuccessFragmentAndOneDialogue ==
  \A r \in Reqs :
    /\ \A k \in 1..Len(bookmarks[r]) :
         Called(r, "script", k, TRUE) =>
           /\ Called(r, "fetch", k, TRUE)
           /\ Len(EventsOf(r, "summarize", k)) = 1
           /\ Len(EventsOf(r, "script", k)) = 1
           /\ Len(FragmentsOf(r, k)) = 1
           /\ FragmentsOf(r, k)[1].kind = "summary"
           /\ FragmentsOf(r, k)[1].text = EventsOf(r, "summarize", k)[1].arg
    /\ allConversations[r] = ScriptsReturned(r)

\* A request has returned with a fully successful bookmark.
C3_Witness ==
  \E r \in Reqs :
    /\ Returned(r)
    /\ \E k \in 1..Len(bookmarks[r]) : Called(r, "script", k, TRUE)

(***************************************************************************)
(* C4.  If the Summarizer call or the Scripter call of a bookmark fails,   *)
(* the summary holds one fragment for it, the error notice of the          *)
(* generation catch and not a summary, and the bookmark adds no script to  *)
(* allConversations; after a Summarizer failure the Scripter is not called.*)
(***************************************************************************)
C4_GenerationFailureIsolated ==
  \A r \in Reqs :
    \A k \in 1..Len(bookmarks[r]) :
      (Called(r, "summarize", k, FALSE) \/ Called(r, "script", k, FALSE)) =>
        /\ Len(FragmentsOf(r, k)) = 1
        /\ FragmentsOf(r, k)[1].kind = "generation-error"
        /\ FragmentsOf(r, k)[1].text \in { GeminiMessage(kind) : kind \in GeminiFailures }
        /\ ~Called(r, "script", k, TRUE)
        /\ Called(r, "summarize", k, FALSE) => EventsOf(r, "script", k) = <<>>
        /\ Len(allConversations[r]) =
             Cardinality({ j \in 1..Len(bookmarks[r]) : Called(r, "script", j, TRUE) })

\* A request has returned after a Summarizer failure on one bookmark and a
\* Scripter failure (after a Summarizer success) on another.
C4_Witness ==
  \E r \in Reqs :
    /\ Returned(r)
    /\ \E k \in 1..Len(bookmarks[r]) : Called(r, "summarize", k, FALSE)
    /\ \E k \in 1..Len(bookmarks[r]) :
         Called(r, "summarize", k, TRUE) /\ Called(r, "script", k, FALSE)

\* Every fetch attempt made for bookmark k failed and the loop has moved on.
FetchGaveUp(r, k) ==
  /\ Visited(r, k)
  /\ EventsOf(r, "fetch", k) # <<>>
  /\ ~Called(r, "fetch", k, TRUE)

\* The fetch attempts and the waits of bookmark k, in order.
FetchAndWaitEvents(r, k) ==
  SelectSeq(trace[r], LAMBDA e : e.k = k /\ e.op \in {"fetch", "wait"})

(***************************************************************************)
(* C5.  If the fetch of a bookmark fails on every attempt, it is attempted *)
(* exactly 3 times, with a wait between consecutive attempts and the       *)
(* second wait strictly longer than the first; then the summary holds one  *)
(* fragment for the bookmark, the fetch-error notice; no Summarizer or     *)
(* Scripter call is made for it and it adds no script.                     *)
(***************************************************************************)
C5_ThreeAttemptsThenErrorFragment ==
  \A r \in Reqs :
    \A k \in 1..Len(bookmarks[r]) :
      FetchGaveUp(r, k) =>
        LET ev == FetchAndWaitEvents(r, k)
        IN /\ Len(EventsOf(r, "fetch", k)) = 3
           /\ Len(ev) = 5
           /\ [n \in 1..5 |-> ev[n].op] = <<"fetch", "wait", "fetch", "wait", "fetch">>
           /\ ev[2].arg < ev[4].arg
           /\ Len(FragmentsOf(r, k)) = 1
           /\ FragmentsOf(r, k)[1].kind = "fetch-error"
           /\ EventsOf(r, "summarize", k) = <<>>
           /\ EventsOf(r, "script", k) = <<>>
           /\ allConversations[r] = ScriptsReturned(r)

\* A request has returned after giving up on the fetch of a bookmark.
C5_Witness ==
  \E r \in Reqs :
    /\ Returned(r)
    /\ \E k \in 1..Len(bookmarks[r]) : FetchGaveUp(r, k)

(***************************************************************************)
(* C6, as claimed.  The waits of a fetch that fails on every attempt are   *)
(* 1s, 2s and 3s: 1s after the first failed attempt, 2s after the second,  *)
(* 3s after the third, and only then is the error surfaced.                *)
(* Refuted: the error of the third attempt is thrown at once (line 23).    *)
(***************************************************************************)
C6_WaitsOneTwoThreeSeconds ==
  \A r \in Reqs :
    \A k \in 1..Len(bookmarks[r]) :
      FetchGaveUp(r, k) =>
        ArgsOf(EventsOf(r, "wait", k)) = <<1000, 2000, 3000>>

(***************************************************************************)
(* C6, amended.  Each wait directly follows a failed attempt; the wait     *)
(* after the n-th failed attempt is n seconds, n = 1, 2; the third failed  *)
(* attempt is followed by no wait: a fetch that fails on every attempt     *)
(* waits 1s and 2s and the error is surfaced right after the third         *)
(* attempt.                                                                *)
(***************************************************************************)
C6_WaitsOneTwoSeconds ==
  \A r \in Reqs :
    \A k \in 1..Len(bookmarks[r]) :
      LET ev == FetchAndWaitEvents(r, k)
      IN /\ \A n \in 1..Len(ev) :
              ev[n].op = "wait" =>
                /\ n > 1
                /\ ev[n - 1].op = "fetch"
                /\ ~ev[n - 1].ok
                /\ ev[n].arg = 1000 * (n \div 2)
         /\ Len(EventsOf(r, "wait", k)) <= 2
         /\ FetchGaveUp(r, k) =>
              /\ ArgsOf(EventsOf(r, "wait", k)) = <<1000, 2000>>
              /\ ev[Len(ev)].op = "fetch"

\* A request has given up on a fetch after its third failed attempt.
C6_Witness ==
  \E r \in Reqs :
    \E k \in 1..Len(bookmarks[r]) :
      FetchGaveUp(r, k) /\ Len(EventsOf(r, "fetch", k)) = 3

(***************************************************************************)
(* Reading the state: the lines of the batch script.                       *)
(***************************************************************************)
\* Line n of the batch script is a dialogue line: not blank, with a colon.
IsDialogueLine(r, n) == ~IsBlankLine(lines[r][n]) /\ ~LineThrows(lines[r][n])

\* Line n is not blank and has no colon.
IsMalformedLine(r, n) == ~IsBlankLine(lines[r][n]) /\ LineThrows(lines[r][n])

\* The clips of the lines from n on whose synthesis succeeded, concatenated
\* in line order.
RECURSIVE ClipsFrom(_, _)
ClipsFrom(r, n) ==
  IF n > Len(lines[r]) THEN <<>>
  ELSE (IF Called(r, "speech", n, TRUE)
        THEN SpeechBuffer(LineText(lines[r][n]), IsAlexLine(lines[r][n]))
        ELSE <<>>) \o ClipsFrom(r, n + 1)

\* Some synthesis call of the request ended with outcome ok.
SomeSpeech(r, ok) == \E n \in 1..Len(lines[r]) : Called(r, "speech", n, ok)

\* The read of the scratch file failed on the file that was there.
ReadFailed(r) == \E n \in 1..Len(trace[r]) :
  trace[r][n].op = "read" /\ trace[r][n].arg = "EIO"

\* The summary holds one fragment for every bookmark that passed the guard
\* of line 368 and none for the others.
SummaryComplete(r) ==
  \A k \in 1..Len(bookmarks[r]) :
    Len(FragmentsOf(r, k)) = IF UrlGuard(bookmarks[r][k].url) = "process" THEN 1 ELSE 0

(***************************************************************************)
(* C7.  A line of the batch script that is not blank and does not match    *)
(* "<Speaker>: <text>" is dropped without effect on the other lines: every *)
(* dialogue line is still synthesized and the audio returned is made of    *)
(* the clips of those whose synthesis succeeded.                           *)
(* Refuted by the script "Alex: w3\nw4": line 330 throws on "w4" and the   *)
(* request returns audio null whatever was synthesized before.             *)
(***************************************************************************)
C7_MalformedLineDropped ==
  \A r \in Reqs :
    (Returned(r) /\ \E n \in 1..Len(lines[r]) : IsMalformedLine(r, n)) =>
      /\ \A n \in 1..Len(lines[r]) :
           IsDialogueLine(r, n) => Len(EventsOf(r, "speech", n)) = 1
      /\ SomeSpeech(r, TRUE) => audioBuffer[r] = Buf(ClipsFrom(r, 1))

(***************************************************************************)
(* C8.  When synthesis fails for some dialogue lines and succeeds for at   *)
(* least one, every dialogue line is still synthesized and the audio       *)
(* returned (the scratch file being read back) is the concatenation, in    *)
(* line order, of the clips of exactly the lines whose synthesis succeeded.*)
(* Refuted through the defect of C7: with "Alex: w1\nSarah: w2" followed   *)
(* by "Alex: w3\nw4", one clip succeeds, one fails, and the line "w4"      *)
(* makes the request return audio null.                                    *)
(***************************************************************************)
C8_PartialSynthesisConcatenated ==
  \A r \in Reqs :
    (Returned(r) /\ SomeSpeech(r, FALSE) /\ SomeSpeech(r, TRUE)
     /\ ~ReadFailed(r)) =>
      /\ \A n \in 1..Len(lines[r]) :
           IsDialogueLine(r, n) => Len(EventsOf(r, "speech", n)) = 1
      /\ audioBuffer[r] = Buf(ClipsFrom(r, 1))

\* C8 on the batch scripts without a malformed line, when the scratch file
\* is read back: there it holds.
C8_OnWellFormedScripts ==
  \A r \in Reqs :
    (/\ Returned(r) /\ SomeSpeech(r, FALSE) /\ SomeSpeech(r, TRUE)
     /\ ~ReadFailed(r)
     /\ \A n \in 1..Len(lines[r]) : ~IsMalformedLine(r, n)) =>
      /\ \A n \in 1..Len(lines[r]) :
           IsDialogueLine(r, n) => Len(EventsOf(r, "speech", n)) = 1
      /\ audioBuffer[r] = Buf(ClipsFrom(r, 1))

(***************************************************************************)
(* C9.  If synthesis was attempted and failed for every line it was        *)
(* attempted for, generateSummaryAndPodcast returns audio null together    *)
(* with the complete summary, and a request that has reached synthesis     *)
(* never ends with an exception.                                           *)
(***************************************************************************)
C9_AllSynthesisFailedAudioNull ==
  \A r \in Reqs :
    /\ (Returned(r) /\ SomeSpeech(r, FALSE) /\ ~SomeSpeech(r, TRUE)) =>
         /\ audioBuffer[r] = Null
         /\ SummaryComplete(r)
    /\ (lines[r] # <<>>) => ~Rejected(r)

\* A request has returned after the synthesis of every dialogue line of its
\* batch script was attempted and failed.
C9_Witness ==
  \E r \in Reqs :
    /\ Returned(r)
    /\ \E n \in 1..Len(lines[r]) : IsDialogueLine(r, n)
    /\ \A n \in 1..Len(lines[r]) : IsDialogueLine(r, n) => Called(r, "speech", n, FALSE)

(***************************************************************************)
(* C10.  With two requests in the process at once, the audio a request     *)
(* returns after assembling its clips is the concatenation of its own      *)
(* clips, unless the read of the file that is there fails: never the other *)
(* request's audio, never lost because of the other request.               *)
(* Refuted: both write, read and unlink the one temp-podcast.mp3.          *)
(***************************************************************************)
C10_AudioIsOwnAudio ==
  \A r \in Reqs :
    (/\ Returned(r) /\ li[r] > Len(lines[r]) /\ audioBuffers[r] # <<>>
     /\ ~ReadFailed(r)) =>
      audioBuffer[r] = Buf(BufferConcat(audioBuffers[r]))

(***************************************************************************)
(* Reading the state: the scratch file.                                    *)
(***************************************************************************)
\* generatePodcastAudio of request r has written the scratch file (line
\* 353): it left its for loop with at least one clip.
WroteScratchFile(r) ==
  /\ pc[r] \in {"read", "unlink", "done"}
  /\ li[r] > Len(lines[r])
  /\ audioBuffers[r] # <<>>

(***************************************************************************)
(* C11.  On every path on which generatePodcastAudio wrote the scratch     *)
(* file, the file no longer exists when generateSummaryAndPodcast returns, *)
(* the paths on which reading it back fails included.                      *)
(* Refuted: when readFileSync throws on the file that is there, line 471   *)
(* is skipped, the catch of line 472 only logs and the file stays.         *)
(***************************************************************************)
C11_ScratchFileRemoved ==
  \A r \in Reqs :
    (Returned(r) /\ WroteScratchFile(r)) => ~file.exists

(***************************************************************************)
(* Reading the state: the handler.                                         *)
(***************************************************************************)
\* The handler of request r has answered.
Responded(r) == hpc[r] = "responded"

\* The pipeline of request r returned without audio.
ReturnedNoAudio(r) == Returned(r) /\ audioBuffer[r] = Null

(***************************************************************************)
(* C12.  When generateSummaryAndPodcast returns without audio (every       *)
(* synthesis failed, or the assembly failed), the handler hands exactly    *)
(* one e-mail to the mailer, with the summary as its HTML content and      *)
(* without attachment, and answers once: with success when the delivery    *)
(* succeeded.                                                              *)
(***************************************************************************)
C12_NoAudioMailWithoutAttachment ==
  \A r \in Reqs :
    (Responded(r) /\ ReturnedNoAudio(r)) =>
      /\ Len(outbox[r]) = 1
      /\ outbox[r][1].mail.htmlContent = summary[r]
      /\ outbox[r][1].mail.attachment = <<>>
      /\ Len(responses[r]) = 1
      /\ outbox[r][1].delivered =>
           responses[r][1].success /\ responses[r][1].status = 200

\* A request whose every synthesis failed has been answered with success
\* after its e-mail was delivered.
C12_Witness ==
  \E r \in Reqs :
    /\ Responded(r) /\ ReturnedNoAudio(r)
    /\ SomeSpeech(r, FALSE) /\ ~SomeSpeech(r, TRUE)
    /\ Len(outbox[r]) = 1 /\ outbox[r][1].delivered
    /\ responses[r] = <<Response(200, TRUE, "Summary and podcast sent successfully")>>

(***************************************************************************)
(* C13.  Two runs of generateSummaryAndPodcast on the same bookmark list,  *)
(* the second after the first, with the stubs answering both alike: the    *)
(* second ends as the first did (returns or throws); when the read of the  *)
(* scratch file went alike in both, the summaries are identical and the    *)
(* audio is null in both or of the same length in both; and the audio the  *)
(* second run reads back is the concatenation of its own clips whatever    *)
(* the first run left behind (the scratch file after a failed read).       *)
(***************************************************************************)
C13_SecondRunSameResult ==
  /\ pc[2] \in {"done", "thrown"} => pc[2] = pc[1]
  /\ (Returned(1) /\ Returned(2) /\ (ReadFailed(1) <=> ReadFailed(2))) =>
       /\ summary[2] = summary[1]
       /\ audioBuffer[2].null = audioBuffer[1].null
       /\ Len(audioBuffer[2].data) = Len(audioBuffer[1].data)
  /\ (Returned(2) /\ WroteScratchFile(2) /\ ~ReadFailed(2)) =>
       audioBuffer[2] = Buf(BufferConcat(audioBuffers[2]))

\* Both runs have returned, the first left its scratch file behind after a
\* failed read, the second returns audio.
C13_Witness ==
  /\ Returned(1) /\ Returned(2)
  /\ WroteScratchFile(1) /\ ReadFailed(1)
  /\ ~audioBuffer[2].null
  /\ summary[2] = summary[1] /\ summary[1] # <<>>

\* The body of request r lacks the user identifier (email missing or ''),
\* or its bookmarks are missing, not a list, or the empty list.
BadBody(r) ==
  \/ body[r].email \in {Undefined, Str(<<>>)}
  \/ body[r].bookmarks.t # "array"
  \/ body[r].bookmarks.s = <<>>

\* generateSummaryAndPodcast has been called for request r.
PipelineCalled(r) == pc[r] # "idle"

(***************************************************************************)
(* C14.  generateSummaryAndPodcast is never called for a request whose     *)
(* body lacks the user identifier or whose bookmarks are missing, not a    *)
(* list or empty: for such a request no collaborator is called and no      *)
(* e-mail is sent, and the one response the handler gives is a failure     *)
(* (400, success false).                                                   *)
(***************************************************************************)
C14_BadBodyNeverReachesPipeline ==
  \A r \in Reqs :
    (hpc[r] # "none" /\ BadBody(r)) =>
      /\ ~PipelineCalled(r)
      /\ trace[r] = <<>>
      /\ outbox[r] = <<>>
      /\ hpc[r] \in {"received", "responded"}
      /\ Responded(r) =>
           /\ Len(responses[r]) = 1
           /\ ~responses[r][1].success
           /\ responses[r][1].status = 400

\* A request with an address and the empty list has been answered with 400.
C14_Witness ==
  \E r \in Reqs :
    /\ Responded(r)
    /\ Truthy(body[r].email)
    /\ body[r].bookmarks = Arr(<<>>)
    /\ responses[r] = <<Response(400, FALSE, "At least one bookmark is required")>>

(***************************************************************************)
(* Reading the state: the dialogue lines of the scripts returned.          *)
(***************************************************************************)
\* What a dialogue line says: all that follows its first colon, trimmed.
TextAfterTag(line) == Trim(Join(Tail(Split(line, ":")), <<":">>))

\* The texts to be spoken for the dialogue lines (the lines that are not
\* blank and have a speaker tag) of the scripts, in order, each as
\* generateSpeech formats it.
RECURSIVE SpokenTexts(_)
SpokenTexts(ls) ==
  IF ls = <<>> THEN <<>>
  ELSE (IF IsBlankLine(Head(ls)) \/ LineThrows(Head(ls)) THEN <<>>
        ELSE << FormatText(TextAfterTag(Head(ls))) >>) \o SpokenTexts(Tail(ls))

RECURSIVE DialogueTexts(_)
DialogueTexts(scripts) ==
  IF scripts = <<>> THEN <<>>
  ELSE SpokenTexts(ScriptLines(Head(scripts))) \o DialogueTexts(Tail(scripts))

\* The texts of the clips of an audio, in order.
ClipTexts(data) == [n \in 1..Len(data) |-> data[n].text]

(***************************************************************************)
(* C15.  When every synthesis call succeeds (and the scratch file is read  *)
(* back), the audio returned holds exactly the dialogue lines of the       *)
(* scripts generated for the fully successful bookmarks, in bookmark       *)
(* order, whatever other bookmarks (invalid URL, failing fetch) the list   *)
(* holds: one clip per dialogue line, saying what the line says.           *)
(* Refuted by the script "Sarah: w5: w7\n\n Alex: w6. Then": line 330      *)
(* keeps only "w5" of the first line; and through the defect of C7: a      *)
(* script with a line without a colon gives audio null.                    *)
(***************************************************************************)
C15_AudioIsTheSuccessfulDialogues ==
  \A r \in Reqs :
    (/\ Returned(r) /\ ScriptsReturned(r) # <<>>
     /\ ~SomeSpeech(r, FALSE) /\ ~ReadFailed(r)) =>
      /\ ~audioBuffer[r].null
      /\ ClipTexts(audioBuffer[r].data) = DialogueTexts(ScriptsReturned(r))

\* C15 on the scripts whose every line that is not blank is
\* "<Speaker>: <text>" with one colon: there it holds.
C15_OnOneColonLines ==
  \A r \in Reqs :
    (/\ Returned(r) /\ ScriptsReturned(r) # <<>>
     /\ ~SomeSpeech(r, FALSE) /\ ~ReadFailed(r)
     /\ \A n \in 1..Len(lines[r]) :
          IsBlankLine(lines[r][n]) \/ Len(Split(lines[r][n], ":")) = 2) =>
      /\ ~audioBuffer[r].null
      /\ ClipTexts(audioBuffer[r].data) = DialogueTexts(ScriptsReturned(r))

(***************************************************************************)
(* Reading the state: the order of the calls.                              *)
(***************************************************************************)
\* Entry p of the trace ends the work on its bookmark: the fetch given up,
\* too little content, a failed Summarizer call, a Scripter call.
EndsBookmark(p) ==
  \/ p.op = "fetch" /\ ~p.ok /\ IsLastAttempt(p.arg)
  \/ p.op = "extract" /\ ~p.ok
  \/ p.op = "summarize" /\ ~p.ok
  \/ p.op = "script"

\* Entry e may come right after entry p: an attempt of the fetch after the
\* wait of the same bookmark or after the end of an earlier bookmark, the
\* wait after a failed attempt, the extraction after the successful fetch,
\* the Summarizer after the extraction, the Scripter after the Summarizer's
\* success, a synthesis after the end of a bookmark or after the synthesis
\* of an earlier line, the read after a synthesis.
MayFollow(p, e) ==
  CASE e.op = "fetch"     -> \/ p.op = "wait" /\ p.k = e.k
                             \/ EndsBookmark(p) /\ p.k < e.k
    [] e.op = "wait"      -> p.op = "fetch" /\ ~p.ok /\ p.k = e.k
    [] e.op = "extract"   -> p.op = "fetch" /\ p.ok /\ p.k = e.k
    [] e.op = "summarize" -> p.op = "extract" /\ p.ok /\ p.k = e.k
    [] e.op = "script"    -> p.op = "summarize" /\ p.ok /\ p.k = e.k
    [] e.op = "speech"    -> EndsBookmark(p) \/ (p.op = "speech" /\ p.k < e.k)
    [] e.op = "read"      -> p.op = "speech"
    [] OTHER              -> FALSE

\* Every bookmark before k that passed the guard of line 368 has its fragment.
FragmentsAppendedBefore(r, k) ==
  \A j \in 1..(k - 1) :
    UrlGuard(bookmarks[r][j].url) = "process" => Len(FragmentsOf(r, j)) = 1

\* The calls request r is waiting for.
InFlight(r) ==
  IF pc[r] \in {"fetch", "summarize", "script"} THEN {pc[r]} ELSE {}

(***************************************************************************)
(* C16.  Within one request the calls are made one at a time and in        *)
(* order.  Every step that adds entries to the trace adds them at its end, *)
(* each in its place after the one before: fetch (and waits), extraction,  *)
(* Summarizer, Scripter for one bookmark, then the next bookmark, and      *)
(* the synthesis calls after all of them, line by line; an attempt of the  *)
(* fetch of bookmark k is made only when each earlier bookmark that is     *)
(* processed has its fragment, and a synthesis only when the loop is past  *)
(* the last bookmark with all fragments appended; and no call is in flight *)
(* when one is made.                                                       *)
(***************************************************************************)
C16_OneCallAtATimeInOrder ==
  [][\A r \in Reqs :
       trace'[r] # trace[r] =>
         /\ IsPrefix(trace[r], trace'[r])
         /\ Cardinality(InFlight(r)) <= 1
         /\ \A n \in (Len(trace[r]) + 1)..Len(trace'[r]) :
              LET e == trace'[r][n]
              IN /\ IF n = 1 THEN e.op = "fetch"
                    ELSE MayFollow(trace'[r][n - 1], e)
                 /\ e.op \in {"fetch", "extract", "summarize", "script"} =>
                      /\ e.k = i[r]
                      /\ FragmentsAppendedBefore(r, e.k)
                      /\ Len(FragmentsOf(r, e.k)) = 0
                 /\ e.op \in {"fetch", "summarize", "script"} =>
                      InFlight(r) = {e.op}
                 /\ e.op = "speech" =>
                      /\ InFlight(r) = {}
                      /\ i[r] > Len(bookmarks[r])
                      /\ FragmentsAppendedBefore(r, Len(bookmarks[r]) + 1)
    ]_vars

\* A request has returned after the full chain of calls for two bookmarks
\* and the synthesis of their lines.
C16_Witness ==
  \E r \in Reqs :
    /\ Returned(r)
    /\ Len(bookmarks[r]) >= 2
    /\ Called(r, "script", 1, TRUE) /\ Called(r, "script", 2, TRUE)
    /\ SomeSpeech(r, TRUE)

(***************************************************************************)
(* C17.  Generation and synthesis calls are never made again: a step that  *)
(* records a Summarizer or Scripter call for a bookmark, or a synthesis    *)
(* call for a line, finds no call of that kind recorded for it, whatever   *)
(* the outcome of the call; a Scripter call is recorded only for a         *)
(* bookmark whose Summarizer call succeeded.  (Only the fetch is attempted *)
(* again: C5, and the witness below.)                                      *)
(***************************************************************************)
C17_GenerationAndSynthesisOnce ==
  [][\A r \in Reqs :
       \A n \in (Len(trace[r]) + 1)..Len(trace'[r]) :
         LET e == trace'[r][n]
         IN /\ e.op \in {"summarize", "script", "speech"} =>
                 EventsOf(r, e.op, e.k) = <<>>
            /\ e.op = "script" => Called(r, "summarize", e.k, TRUE)
    ]_vars

\* A request has returned after a fetch that was attempted again, a failed
\* synthesis and a failed generation call.
C17_Witness ==
  \E r \in Reqs :
    /\ Returned(r)
    /\ \E k \in 1..Len(bookmarks[r]) :
         Len(EventsOf(r, "fetch", k)) > 1 /\ Called(r, "script", k, TRUE)
    /\ \E k \in 1..Len(bookmarks[r]) :
         Called(r, "summarize", k, FALSE) \/ Called(r, "script", k, FALSE)
    /\ SomeSpeech(r, FALSE)

(***************************************************************************)
(* C18.  The step that follows a successful fetch.  When the normalized    *)
(* text of the page has fewer than 50 characters, no call is made for the  *)
(* bookmark, the one fragment appended for it is the error notice with the *)
(* message 'Not enough content extracted', it adds no script and the loop  *)
(* goes to the next bookmark; with 50 characters or more, the Summarizer   *)
(* is called on that text and no fragment is appended yet.  A Summarizer   *)
(* or Scripter call is only ever made for a bookmark whose extraction      *)
(* gave 50 characters or more.                                             *)
(***************************************************************************)
C18_ExtractionFailsBelowFifty ==
  [][\A r \in Reqs :
       /\ (pc[r] = "fetched" /\ pc'[r] # "fetched") =>
            LET text == ExtractMainContent(page[r])
            IN IF RLen(text) < 50
               THEN /\ pc'[r] = "loop" /\ i'[r] = i[r] + 1
                    /\ Len(summary'[r]) = Len(summary[r]) + 1
                    /\ SubSeq(summary'[r], 1, Len(summary[r])) = summary[r]
                    /\ LET f == summary'[r][Len(summary'[r])]
                       IN /\ f.bm = i[r]
                          /\ f.kind = "fetch-error"
                          /\ f.text = <<"Not enough content extracted">>
                    /\ allConversations'[r] = allConversations[r]
                    /\ \A n \in 1..Len(trace'[r]) :
                         trace'[r][n].op \in {"summarize", "script"} =>
                           trace'[r][n].k # i[r]
               ELSE /\ pc'[r] = "summarize" /\ i'[r] = i[r]
                    /\ mainContent'[r] = text
                    /\ summary'[r] = summary[r]
       /\ \A n \in (Len(trace[r]) + 1)..Len(trace'[r]) :
            trace'[r][n].op \in {"summarize", "script"} =>
              /\ trace'[r][n].k = i[r]
              /\ RLen(mainContent[r]) >= 50
              /\ Called(r, "extract", i[r], TRUE)
              /\ ~Called(r, "extract", i[r], FALSE)
    ]_vars

\* After a bookmark whose page gave too little text and got its error
\* fragment, the Summarizer is being called for a bookmark whose text has
\* exactly 50 characters.
C18_Witness ==
  \E r \in Reqs :
    /\ pc[r] = "summarize"
    /\ RLen(mainContent[r]) = 50
    /\ Called(r, "extract", 1, FALSE)
    /\ Len(FragmentsOf(r, 1)) = 1
    /\ FragmentsOf(r, 1)[1].text = <<"Not enough content extracted">>

(***************************************************************************)
(* Reading the state: the region the extraction is to take.                *)
(***************************************************************************)
\* The first of the regions whose stripped text has more than 100
\* characters, <<>> when there is none.
RECURSIVE FirstLongRegion(_)
FirstLongRegion(regions) ==
  IF regions = <<>> THEN <<>>
  ELSE IF RLen(RTrim(Head(regions))) > 100 THEN RTrim(Head(regions))
  ELSE FirstLongRegion(Tail(regions))

\* That region, or the text of the body when no region has more than 100
\* characters.
RegionOrBody(doc) ==
  IF FirstLongRegion(doc.regions) # <<>> THEN FirstLongRegion(doc.regions)
  ELSE RTrim(doc.body)

(***************************************************************************)
(* C19.  The text the Summarizer is called on is the normalized text of    *)
(* the first content region of the page, in selector order, whose stripped *)
(* text has more than 100 characters, and of the whole body when no region *)
(* has more than 100 characters, a longest region of exactly 100 included. *)
(* Refuted by a page whose one content region has exactly 100 characters:  *)
(* 100 > 100 is false (line 396) and 100 < 100 is false (line 403), so the *)
(* region is kept and the body is not read.                                *)
(***************************************************************************)
C19_FirstLongRegionOrBody ==
  \A r \in Reqs :
    pc[r] \in {"summarize", "script"} =>
      mainContent[r] = Normalize(RegionOrBody(page[r]))

\* C19 on the pages whose last matching region does not have exactly 100
\* characters: there it holds.
C19_ExceptExactlyHundred ==
  \A r \in Reqs :
    (/\ pc[r] \in {"summarize", "script"}
     /\ \A n \in 1..Len(page[r].regions) :
          RLen(RTrim(page[r].regions[n])) # 100) =>
      mainContent[r] = Normalize(RegionOrBody(page[r]))

(***************************************************************************)
(* Reading the state: the speaker of a dialogue line.                      *)
(***************************************************************************)
\* The speaker tag of a dialogue line: what stands before its first colon,
\* without the whitespace around it.
SpeakerTag(line) == Trim(Split(line, ":")[1])

\* The voice of the host with that tag: Alex is the first host.
VoiceOfSpeaker(tag) == IF tag = <<"Alex">> THEN VoiceBella ELSE VoiceRachel

(***************************************************************************)
(* C20.  Every synthesis call made for a dialogue line uses the voice of   *)
(* the line's speaker: the first host's voice for every line tagged Alex,  *)
(* the second host's for every line tagged Sarah, wherever the line is in  *)
(* the batch script and whatever whitespace precedes its tag.              *)
(* Refuted by the line " Alex: w6. Then": startsWith('Alex:') is false for *)
(* the indented line, which is synthesized with the second host's voice.   *)
(***************************************************************************)
C20_OneVoicePerSpeaker ==
  \A r \in Reqs :
    \A n \in 1..Len(trace[r]) :
      trace[r][n].op = "speech" =>
        trace[r][n].arg = VoiceOfSpeaker(SpeakerTag(lines[r][trace[r][n].k]))

\* C20 on the lines whose tag stands at the start of the line: there it
\* holds.
C20_OnTagsAtLineStart ==
  \A r \in Reqs :
    \A n \in 1..Len(trace[r]) :
      (/\ trace[r][n].op = "speech"
       /\ TrimLeft(lines[r][trace[r][n].k]) = lines[r][trace[r][n].k]) =>
        trace[r][n].arg = VoiceOfSpeaker(SpeakerTag(lines[r][trace[r][n].k]))

(***************************************************************************)
(* One call of generateSummaryAndPodcast in which every call that is       *)
(* awaited is answered (with success or with failure) and every            *)
(* continuation that is ready is run by the event loop: no step that stays *)
(* possible is put off for ever.                                           *)
(***************************************************************************)
SpecLive == Init /\ [][Next]_vars /\ WF_vars(Next)

\* The call of request r has been made and nothing of it has run yet.
Entered(r) == pc[r] = "loop" /\ i[r] = 1 /\ trace[r] = <<>>

\* Some bookmark of request r has a url that is neither missing nor a
\* string.
HasNonStringUrl(r) ==
  \E k \in 1..Len(bookmarks[r]) : UrlGuard(bookmarks[r][k].url) = "throw"

(***************************************************************************)
(* C21.  When every external call is answered, a call of                   *)
(* generateSummaryAndPodcast on any bookmark list eventually returns its   *)
(* result, with every bookmark visited.                                    *)
(* Refuted through the defect of C1: on a bookmark whose url is the number *)
(* 42 the call ends with an exception; it never returns and the bookmarks  *)
(* after it are never visited.                                             *)
(***************************************************************************)
C21_EventuallyReturns ==
  \A r \in Reqs :
    Entered(r) ~>
      (Returned(r) /\ \A k \in 1..Len(bookmarks[r]) : Visited(r, k))

\* C21 on the lists whose urls are missing or strings: there it holds.  The
\* retry loop ends (at most maxRetries attempts) and so does the loop over
\* the lines.
C21_OnStringUrls ==
  \A r \in Reqs :
    (Entered(r) /\ ~HasNonStringUrl(r)) ~>
      (Returned(r) /\ \A k \in 1..Len(bookmarks[r]) : Visited(r, k))

\* C21's bounds as a state predicate: no bookmark has more than maxRetries
\* fetch attempts, and the loops never pass their ends by more than one.
C21_LoopsBounded ==
  \A r \in Reqs :
    /\ \A k \in 1..Len(bookmarks[r]) : Len(EventsOf(r, "fetch", k)) <= maxRetries
    /\ attempt[r] < maxRetries
    /\ i[r] <= Len(bookmarks[r]) + 1
    /\ li[r] <= Len(lines[r]) + 1

\* sendTransacEmail was called for request r / resolved / rejected.
SendAttempted(r) == outbox[r] # <<>>
SendSucceeded(r) == \E m \in 1..Len(outbox[r]) : outbox[r][m].delivered
SendFailed(r) == \E m \in 1..Len(outbox[r]) : ~outbox[r][m].delivered

(***************************************************************************)
(* C22.  The POST /api/summary handler never sends a second response, and  *)
(* it has sent exactly one when it ends, on each of its paths (an early    *)
(* return, the rejected pipeline, the e-mail delivered, the e-mail         *)
(* refused).  The response reports success (status 200, success: true)     *)
(* exactly when sendTransacEmail was called and resolved; when it rejected *)
(* the response is a failure (status 500); a response without any send is  *)
(* a failure too; and sendTransacEmail is called at most once.             *)
(***************************************************************************)
C22_OneResponseSuccessIffDelivered ==
  \A r \in Reqs :
    /\ Len(responses[r]) <= 1
    /\ Len(outbox[r]) <= 1
    /\ Responded(r) <=> Len(responses[r]) = 1
    /\ SendAttempted(r) => Responded(r)
    /\ \A n \in 1..Len(responses[r]) :
         /\ responses[r][n].success <=> SendSucceeded(r)
         /\ responses[r][n].success <=> responses[r][n].status = 200
         /\ SendFailed(r) => responses[r][n].status = 500
         /\ ~SendAttempted(r) => responses[r][n].status \in {400, 500}

\* A request whose pipeline returned and whose e-mail was refused: one send,
\* one response, a failure with status 500.
C22_Witness ==
  \E r \in Reqs :
    /\ Responded(r) /\ Returned(r)
    /\ Len(outbox[r]) = 1 /\ SendFailed(r)
    /\ responses[r] = <<Response(500, FALSE, "error")>>

=============================================================================
